---- MODULE Spec2Model ----
(***************************************************************************)
(* Table-frame engine of the frontend: parseTable / concatTables           *)
(* (lib/arrowProto) and the Quiver class (lib/Quiver.ts).                  *)
(*                                                                         *)
(* JavaScript arrays and objects that the code mutates in place are kept   *)
(* in a heap so that aliasing is visible: heapArr holds the index level    *)
(* arrays (concatRangeIndex pushes onto them), heapTyp holds the IndexType *)
(* objects (their meta.stop / meta.num_categories are assigned in place).  *)
(* Everything else (column labels, data rows, data types) is never mutated *)
(* in place by the code and is kept by value.                              *)
(***************************************************************************)
EXTENDS Integers, Sequences, FiniteSets, TLC

\* ------------------------------------------------------------------------
\* Bounds of the model
\* ------------------------------------------------------------------------
\* largest number of rows of one payload
MaxRows == 2
\* number of addRows calls made on the receiving model
MaxAdds == 2
\* number of addRows calls made on a model before its cells are read
MaxCellAdds == 1
\* number of add_rows messages sent to one element
MaxCalls == 2
\* largest absolute value of a number that is compared
MaxValue == 2
\* largest length of a string that is compared
MaxLen == 2

\* ------------------------------------------------------------------------
\* Small helpers
\* ------------------------------------------------------------------------
Min(a, b) == IF a < b THEN a ELSE b

Max(a, b) == IF a > b THEN a ELSE b

\* ceil(a / b) for b # 0
CeilDiv(a, b) == IF b > 0 THEN -((-a) \div b) ELSE -(a \div (-b))

\* faulty variant: a range that takes the term equal to end as well
LodashRange_Inclusive(start, end, step) ==
  LET s == IF step = 0 THEN 1 ELSE step
      n == Max(CeilDiv(end - start + (IF s > 0 THEN 1 ELSE -1), s), 0)
  IN  [i \in 1..n |-> start + (i - 1) * step]

\* lodash range(start, end, step): max(ceil((end - start) / (step || 1)), 0)
\* terms start, start + step, ...
LodashRange(start, end, step) ==
  LET s == IF step = 0 THEN 1 ELSE step
      n == Max(CeilDiv(end - start, s), 0)
  IN  [i \in 1..n |-> start + (i - 1) * step]

\* lodash unzip: regroups a list of equally long tuples by position
Unzip(rows) ==
  IF Len(rows) = 0 THEN <<>>
  ELSE [i \in 1..Len(rows[1]) |-> [j \in 1..Len(rows) |-> rows[j][i]]]

\* Array.prototype.slice(0, n) for n >= 0
SliceTo(row, n) == SubSeq(row, 1, Min(n, Len(row)))

\* Array.prototype.every with (value, index) => value === other[index];
\* other[index] is undefined past the end of other, and never === a value
EveryEqualAt(first, other) ==
  \A i \in 1..Len(first) : i <= Len(other) /\ first[i] = other[i]

\* ------------------------------------------------------------------------
\* Strings as character sequences (field names are rewritten and parsed)
\* ------------------------------------------------------------------------
\* fieldName.replace(/\(/g, "[").replace(/\)/g, "]").replace(/'/g, '"')
ReplaceTupleChars(s) ==
  [i \in 1..Len(s) |->
     CASE s[i] = "(" -> "["
       [] s[i] = ")" -> "]"
       [] s[i] = "'" -> "\""
       [] OTHER -> s[i]]

\* JSON.parse of a flat array of string literals without escapes:
\* the elements are the runs of characters between pairs of double quotes
RECURSIVE JsonStrings(_, _, _, _, _)
JsonStrings(s, i, inStr, cur, acc) ==
  IF i > Len(s) THEN acc
  ELSE IF s[i] = "\"" THEN
         IF inStr THEN JsonStrings(s, i + 1, FALSE, <<>>, Append(acc, cur))
         ELSE JsonStrings(s, i + 1, TRUE, <<>>, acc)
       ELSE IF inStr THEN JsonStrings(s, i + 1, TRUE, Append(cur, s[i]), acc)
            ELSE JsonStrings(s, i + 1, FALSE, cur, acc)

JsonParseArray(s) == JsonStrings(s, 1, FALSE, <<>>, <<>>)

\* ------------------------------------------------------------------------
\* Payloads: an arrow table with its "pandas" schema, as the backend writes it
\* ------------------------------------------------------------------------
\* index_columns entry that is a RangeIndex object
RangeDescriptor(start, stop, step) ==
  [kind |-> "range", name |-> <<>>, start |-> start, stop |-> stop, step |-> step]

\* index_columns entry that is a string naming a column of the table
FieldReference(fieldName) ==
  [kind |-> "field", name |-> fieldName, start |-> 0, stop |-> 0, step |-> 0]

\* metadata of a schema column: null, or {num_categories, ordered}
NullMetadata == [null |-> TRUE, start |-> 0, stop |-> 0, step |-> 0, num_categories |-> 0]

CategoricalMetadata(n) == [NullMetadata EXCEPT !.null = FALSE, !.num_categories = n]

SchemaColumn(fieldName, pandasType, numpyType, metadata) ==
  [field_name |-> fieldName, metadata |-> metadata,
   numpy_type |-> numpyType, pandas_type |-> pandasType]

\* field names of the index columns pandas writes (__index_level_<k>__)
IndexFieldName(k) == <<"_", "_", "i", IF k = 0 THEN "0" ELSE "1">>

\* the index layouts of the payloads
IndexShapes == {"none", "range", "range2", "categorical", "multi"}

\* the data column layouts of the payloads
ColumnShapes == {"none", "int64", "unicode", "two"}

\* stop of a RangeIndex of n entries and step 2 that is not start + n * step
OddStop(n) == IF n = 0 THEN 0 ELSE 2 * n - 1

IndexColumnsOf(shape, n) ==
  CASE shape = "none" -> <<>>
    [] shape = "range" -> <<RangeDescriptor(0, n, 1)>>
    [] shape = "range2" -> <<RangeDescriptor(0, OddStop(n), 2)>>
    [] shape = "categorical" -> <<FieldReference(IndexFieldName(0))>>
    [] shape = "multi" -> <<FieldReference(IndexFieldName(0)), FieldReference(IndexFieldName(1))>>

\* schema columns of the index columns that are stored in the table
IndexSchemaColumnsOf(shape, n) ==
  CASE shape = "categorical" ->
         <<SchemaColumn(IndexFieldName(0), "categorical", "int8", CategoricalMetadata(n))>>
    [] shape = "multi" ->
         <<SchemaColumn(IndexFieldName(0), "categorical", "int8", CategoricalMetadata(n)),
           SchemaColumn(IndexFieldName(1), "object", "period[Q-DEC]", NullMetadata)>>
    [] OTHER -> <<>>

\* schema columns of the data columns; with two column levels the field name
\* is the tuple literal pandas writes, e.g. ('a', 'x')
DataSchemaColumnsOf(shape) ==
  CASE shape = "none" -> <<>>
    [] shape = "int64" -> <<SchemaColumn(<<"a">>, "int64", "int64", NullMetadata)>>
    [] shape = "unicode" -> <<SchemaColumn(<<"a">>, "unicode", "object", NullMetadata)>>
    [] shape = "two" ->
         <<SchemaColumn(<<"(", "'", "a", "'", ",", " ", "'", "x", "'", ")">>,
                        "int64", "int64", NullMetadata),
           SchemaColumn(<<"(", "'", "a", "'", ",", " ", "'", "y", "'", ")">>,
                        "unicode", "object", NullMetadata)>>

ColumnIndexesOf(shape) == IF shape = "two" THEN <<"l0", "l1">> ELSE <<"l0">>

\* interface Schema
SchemaOf(p) ==
  [index_columns |-> IndexColumnsOf(p.index, p.rows),
   columns |-> DataSchemaColumnsOf(p.cols) \o IndexSchemaColumnsOf(p.index, p.rows),
   column_indexes |-> ColumnIndexesOf(p.cols)]

\* the arrow table: its length, an id that makes its cell values its own,
\* and its metadata map: pandas says whether the map has the key "pandas",
\* schema is the schema string under that key (as JSON.parse reads it)
TableOf(p, id) ==
  [length |-> p.rows, id |-> id, pandas |-> TRUE, schema |-> SchemaOf(p)]

\* table.getColumnAt(c).get(r), c and r counted from 0
CellValue(table, c, r) == 100 * table.id + 10 * c + r

\* styler.uuid of the styled payloads
StylerUuid == "u1"

\* IArrow element: the table and the optional styler with its display values
ElementOf(p, id) ==
  [data |-> TableOf(p, id),
   styler |-> [defined |-> p.styler, uuid |-> StylerUuid,
               displayValues |-> TableOf(p, id + 50)]]

\* the (index layout, column layout) pairs that occur
PayloadShapes ==
  {<<"range", "none">>, <<"none", "none">>, <<"range", "int64">>,
   <<"range", "unicode">>, <<"range2", "two">>, <<"categorical", "int64">>,
   <<"none", "int64">>, <<"multi", "int64">>}

\* the row counts of the payloads
RowCounts == {0, 1, MaxRows}

\* a table without any column has no rows; the styled payloads are an empty
\* frame and a frame of one row
Payloads ==
  {p \in [index : IndexShapes, cols : ColumnShapes, rows : RowCounts, styler : BOOLEAN] :
     /\ <<p.index, p.cols>> \in PayloadShapes
     /\ p.cols = "none" => p.rows = 0
     /\ p.styler => /\ p.index = "range"
                    /\ <<p.cols, p.rows>> \in {<<"none", 0>>, <<"int64", 1>>}}

\* ------------------------------------------------------------------------
\* parseTable and its helpers (values first, heap objects in ParseTable)
\* ------------------------------------------------------------------------
\* typeof field === "object" && field.kind === "range"
IsRangeIndex(field) == field.kind = "range"

\* schema.index_columns.includes(fieldName): only the string entries can match
IndexColumnsInclude(schema, fieldName) ==
  \E k \in 1..Len(schema.index_columns) :
     /\ schema.index_columns[k].kind = "field"
     /\ schema.index_columns[k].name = fieldName

\* position (from 0) of the table column called fieldName: table.getColumn
ColumnPosition(schema, fieldName) ==
  (CHOOSE c \in 1..Len(schema.columns) : schema.columns[c].field_name = fieldName) - 1

\* range(0, column.length).map(rowIndex => column.get(rowIndex))
GetColumnData(table, c) == [r \in 1..table.length |-> CellValue(table, c, r - 1)]

GetIndex(table, schema) ==
  [k \in 1..Len(schema.index_columns) |->
     LET field == schema.index_columns[k]
     IN  IF IsRangeIndex(field)
         THEN LodashRange(field.start, field.stop, field.step)
         ELSE GetColumnData(table, ColumnPosition(schema, field.name))]

\* the IndexType objects, by value; a range keeps its descriptor as meta
GetIndexType(schema) ==
  [k \in 1..Len(schema.index_columns) |->
     LET indexName == schema.index_columns[k]
     IN  IF IsRangeIndex(indexName)
         THEN [name |-> "range",
               meta |-> [null |-> FALSE, start |-> indexName.start, stop |-> indexName.stop,
                         step |-> indexName.step, num_categories |-> 0]]
         ELSE LET indexColumn ==
                    CHOOSE column \in {schema.columns[c] : c \in 1..Len(schema.columns)} :
                       column.field_name = indexName.name
              IN  [name |-> IF indexColumn.pandas_type = "object"
                            THEN indexColumn.numpy_type
                            ELSE indexColumn.pandas_type,
                   meta |-> indexColumn.metadata]]

\* the schema columns that are not index columns, in schema order
DataSchemaColumns(schema) ==
  SelectSeq(schema.columns, LAMBDA column : ~IndexColumnsInclude(schema, column.field_name))

GetColumns(schema) ==
  LET isMultiIndex == Len(schema.column_indexes) > 1
      fields == DataSchemaColumns(schema)
  IN  Unzip([j \in 1..Len(fields) |->
               IF isMultiIndex
               THEN JsonParseArray(ReplaceTupleChars(fields[j].field_name))
               ELSE <<fields[j].field_name>>])

\* faulty variant: the columns are read from the second table column on
GetData_FromSecondColumn(table, columns) ==
  LET rows == table.length
      cols == IF Len(columns) > 0 THEN Len(columns[1]) ELSE 0
  IN  [r \in 1..rows |-> [c \in 1..cols |-> CellValue(table, c, r - 1)]]

GetData(table, columns) ==
  LET rows == table.length
      cols == IF Len(columns) > 0 THEN Len(columns[1]) ELSE 0
  IN  [r \in 1..rows |-> [c \in 1..cols |-> CellValue(table, c - 1, r - 1)]]

GetDataColumnType(table, schema) ==
  LET rows == table.length
      fields == DataSchemaColumns(schema)
  IN  IF rows > 0 THEN [j \in 1..Len(fields) |-> fields[j].pandas_type] ELSE <<>>

\* the frame parseTable builds from one table, every array by value
ParseValue(table) ==
  LET schema == table.schema
      columns == GetColumns(schema)
  IN  [index |-> [data |-> GetIndex(table, schema), type |-> GetIndexType(schema)],
       columns |-> columns,
       data |-> [data |-> GetData(table, columns), type |-> GetDataColumnType(table, schema)]]

\* styler of a frame without styler (undefined)
NoStyler ==
  [defined |-> FALSE, uuid |-> "",
   displayValues |-> [index |-> [data |-> <<>>, type |-> <<>>], columns |-> <<>>,
                      data |-> [data |-> <<>>, type |-> <<>>]]]

\* parseTable: the new frame refers to fresh index level arrays and fresh
\* IndexType objects, appended to the heaps arr and typ
ParseTable(element, arr, typ) ==
  LET v == ParseValue(element.data)
      levels == Len(v.index.data)
  IN  [df |-> [index |-> [data |-> [k \in 1..levels |-> Len(arr) + k],
                          type |-> [k \in 1..levels |-> Len(typ) + k]],
               columns |-> v.columns,
               data |-> v.data,
               styler |-> IF element.styler.defined
                          THEN [defined |-> TRUE, uuid |-> element.styler.uuid,
                                displayValues |-> ParseValue(element.styler.displayValues)]
                          ELSE NoStyler],
       arr |-> arr \o v.index.data,
       typ |-> typ \o v.index.type]

\* faulty variant: a table without schema string is read under its schema
GetSchema_Default(table) == [missing |-> FALSE, schema |-> table.schema]

\* getSchema: missing when table.schema.metadata.get("pandas") is null
GetSchema(table) == [missing |-> ~table.pandas, schema |-> table.schema]

\* parseTable as its caller sees it: getSchema throws for the table and,
\* in the nested parseTable, for the display values of a styler; the catch
\* clause throws the error again, wrapped, and no frame is returned
TryParseTable(element, arr, typ) ==
  IF \/ GetSchema(element.data).missing
     \/ element.styler.defined /\ GetSchema(element.styler.displayValues).missing
  THEN [outcome |-> "SchemaMissing", frame |-> <<>>, arr |-> arr, typ |-> typ]
  ELSE LET parsed == ParseTable(element, arr, typ)
       IN  [outcome |-> "ok", frame |-> <<parsed.df>>, arr |-> parsed.arr,
            typ |-> parsed.typ]

\* the content of a frame: every reference replaced by what it refers to
Deep(df, arr, typ) ==
  [index |-> [data |-> [k \in 1..Len(df.index.data) |-> arr[df.index.data[k]]],
              type |-> [k \in 1..Len(df.index.type) |-> typ[df.index.type[k]]]],
   columns |-> df.columns,
   data |-> df.data,
   styler |-> df.styler]

\* ------------------------------------------------------------------------
\* concatTables and its helpers; arr and typ are the heaps before the call,
\* the heaps after it are returned with the result
\* ------------------------------------------------------------------------
\* isEmptyDf reads df.index.data[0].length after df.data.data.length === 0:
\* with no index level that read is of undefined and throws a TypeError
IsEmptyDfThrows(df) == Len(df.data.data) = 0 /\ Len(df.index.data) = 0

\* faulty variant: the emptiness test without the column-label check
IsEmptyDf_NoColumnCheck(df, arr) ==
  /\ Len(df.data.data) = 0
  /\ Len(arr[df.index.data[1]]) = 0

IsEmptyDf(df, arr) ==
  /\ Len(df.data.data) = 0
  /\ Len(arr[df.index.data[1]]) = 0
  /\ Len(df.columns) = 0

\* faulty variant: the index type check that compares the lengths only
SameIndexTypes_LengthOnly(firstType, secondType, typ) ==
  Len(firstType) = Len(secondType)

SameIndexTypes(firstType, secondType, typ) ==
  IF Len(firstType) # Len(secondType) THEN FALSE
  ELSE \A k \in 1..Len(firstType) : typ[firstType[k]].name = typ[secondType[k]].name

SameDataColumnTypes(firstType, secondType) == EveryEqualAt(firstType, secondType)

\* faulty variant: the range level extended by the values of secondIndex
ConcatRangeIndex_SecondValues(firstIndex, secondIndex, indexType, arr, typ) ==
  [data |-> firstIndex,
   type |-> indexType,
   arr |-> [arr EXCEPT ![firstIndex] = @ \o arr[secondIndex]],
   typ |-> [typ EXCEPT ![indexType].meta.stop =
                         @ + Len(arr[secondIndex]) * typ[indexType].meta.step]]

\* pushes one value per entry of secondIndex onto the array firstIndex itself
\* and assigns indexType.meta.stop in place
ConcatRangeIndex(firstIndex, secondIndex, indexType, arr, typ) ==
  LET m == Len(arr[secondIndex])
      stop == typ[indexType].meta.stop
      step == typ[indexType].meta.step
  IN  [data |-> firstIndex,
       type |-> indexType,
       arr |-> [arr EXCEPT ![firstIndex] = @ \o [i \in 1..m |-> stop + (i - 1) * step]],
       typ |-> [typ EXCEPT ![indexType].meta.stop = stop + m * step]]

\* faulty variant: num_categories of a categorical level is left as it was
ConcatAnyIndex_CategoriesKept(firstIndex, secondIndex, indexType, arr, typ) ==
  [data |-> Len(arr) + 1,
   type |-> indexType,
   arr |-> Append(arr, arr[firstIndex] \o arr[secondIndex]),
   typ |-> typ]

\* firstIndex.concat(secondIndex) is a new array; num_categories is assigned
\* in place
ConcatAnyIndex(firstIndex, secondIndex, indexType, arr, typ) ==
  [data |-> Len(arr) + 1,
   type |-> indexType,
   arr |-> Append(arr, arr[firstIndex] \o arr[secondIndex]),
   typ |-> IF typ[indexType].name = "categorical"
           THEN [typ EXCEPT ![indexType].meta.num_categories = @ + Len(arr[secondIndex])]
           ELSE typ]

ConcatIndex(firstIndex, secondIndex, indexType, arr, typ) ==
  IF typ[indexType].name = "range"
  THEN ConcatRangeIndex(firstIndex, secondIndex, indexType, arr, typ)
  ELSE ConcatAnyIndex(firstIndex, secondIndex, indexType, arr, typ)

\* firstIndices.data.reduce(...): level after level, each on the heaps the
\* level before left
RECURSIVE ConcatLevels(_, _, _, _, _, _)
ConcatLevels(firstIndices, secondIndices, k, newIndex, arr, typ) ==
  IF k > Len(firstIndices.data)
  THEN [outcome |-> "ok", index |-> newIndex, arr |-> arr, typ |-> typ]
  ELSE LET c == ConcatIndex(firstIndices.data[k], secondIndices.data[k],
                            firstIndices.type[k], arr, typ)
       IN  ConcatLevels(firstIndices, secondIndices, k + 1,
                        [data |-> Append(newIndex.data, c.data),
                         type |-> Append(newIndex.type, c.type)],
                        c.arr, c.typ)

\* faulty variant: the index types are compared also when the first level
\* of firstIndices has no entries
ConcatIndices_AlwaysCompare(firstIndices, secondIndices, arr, typ) ==
  IF Len(firstIndices.data) = 0
  THEN [outcome |-> "TypeError", index |-> firstIndices, arr |-> arr, typ |-> typ]
  ELSE IF ~SameIndexTypes(firstIndices.type, secondIndices.type, typ)
  THEN [outcome |-> "IndexTypeMismatch", index |-> firstIndices, arr |-> arr, typ |-> typ]
  ELSE IF Len(arr[firstIndices.data[1]]) = 0
  THEN [outcome |-> "ok", index |-> secondIndices, arr |-> arr, typ |-> typ]
  ELSE ConcatLevels(firstIndices, secondIndices, 1, [data |-> <<>>, type |-> <<>>], arr, typ)

ConcatIndices(firstIndices, secondIndices, arr, typ) ==
  IF Len(firstIndices.data) = 0
  THEN \* firstIndices.data[0] is undefined
       [outcome |-> "TypeError", index |-> firstIndices, arr |-> arr, typ |-> typ]
  ELSE IF Len(arr[firstIndices.data[1]]) = 0
  THEN [outcome |-> "ok", index |-> secondIndices, arr |-> arr, typ |-> typ]
  ELSE IF ~SameIndexTypes(firstIndices.type, secondIndices.type, typ)
  THEN [outcome |-> "IndexTypeMismatch", index |-> firstIndices, arr |-> arr, typ |-> typ]
  ELSE ConcatLevels(firstIndices, secondIndices, 1, [data |-> <<>>, type |-> <<>>], arr, typ)

\* faulty variant: the merged body holds the rows of firstData only
ConcatData_FirstRows(firstData, secondData) ==
  IF ~SameDataColumnTypes(firstData.type, secondData.type)
  THEN [outcome |-> "DataTypeMismatch", data |-> firstData]
  ELSE [outcome |-> "ok", data |-> firstData]

ConcatData(firstData, secondData) ==
  IF ~SameDataColumnTypes(firstData.type, secondData.type)
  THEN [outcome |-> "DataTypeMismatch", data |-> firstData]
  ELSE LET numberOfColumns == Len(firstData.type)
       IN  [outcome |-> "ok",
            data |-> [data |-> firstData.data \o
                                 [r \in 1..Len(secondData.data) |->
                                    SliceTo(secondData.data[r], numberOfColumns)],
                      type |-> firstData.type]]

\* faulty variant: only the receiver's styler is looked at
HasStyler_FirstOnly(df1, df2) == df1.styler.defined

\* if (df1.styler || df2.styler)
HasStyler(df1, df2) == df1.styler.defined \/ df2.styler.defined

\* faulty variant: the merged frame takes the labels of the second frame
MergedColumns_Second(df1, df2) == df2.columns

\* const { columns } = df1: "Always returns first df columns"
MergedColumns(df1, df2) == df1.columns

\* outcome: "ok" or the error thrown; path: which return statement was taken
ConcatTables(df1, df2, arr, typ) ==
  LET fail(e) == [outcome |-> e, path |-> "throw", df |-> df1, arr |-> arr, typ |-> typ]
  IN  IF HasStyler(df1, df2) THEN fail("StyledConcatUnsupported")
      ELSE IF IsEmptyDfThrows(df1) THEN fail("TypeError")
      ELSE IF IsEmptyDf(df1, arr)
      THEN [outcome |-> "ok", path |-> "df2", df |-> df2, arr |-> arr, typ |-> typ]
      ELSE IF IsEmptyDfThrows(df2) THEN fail("TypeError")
      ELSE IF IsEmptyDf(df2, arr)
      THEN [outcome |-> "ok", path |-> "df1", df |-> df1, arr |-> arr, typ |-> typ]
      ELSE LET index == ConcatIndices(df1.index, df2.index, arr, typ)
               data == ConcatData(df1.data, df2.data)
           IN  IF index.outcome # "ok"
               THEN [outcome |-> index.outcome, path |-> "throw", df |-> df1,
                     arr |-> index.arr, typ |-> index.typ]
               ELSE IF data.outcome # "ok"
               THEN [outcome |-> data.outcome, path |-> "throw", df |-> df1,
                     arr |-> index.arr, typ |-> index.typ]
               ELSE [outcome |-> "ok", path |-> "merged",
                     df |-> [index |-> index.index, columns |-> MergedColumns(df1, df2),
                             data |-> data.data, styler |-> NoStyler],
                     arr |-> index.arr, typ |-> index.typ]

\* ------------------------------------------------------------------------
\* Quiver
\* ------------------------------------------------------------------------
\* faulty variant: no default of one header row for a frame without column labels
Dimensions_NoHeaderRowDefault(q, arr) ==
  LET headerColumns == Len(q.index.data)
      dataRowsCheck == IF Len(q.index.data) # 0 THEN Len(arr[q.index.data[1]]) ELSE 0
      headerRows == Len(q.columns)
      dataColumnsCheck == IF Len(q.columns) # 0 THEN Len(q.columns[1]) ELSE 0
      dataRows == Len(q.data.data)
      dataColumns == IF Len(q.data.data) # 0 THEN Len(q.data.data[1]) ELSE dataColumnsCheck
  IN  [throws |-> \/ (dataRows # 0 /\ dataRows # dataRowsCheck)
                  \/ (dataColumns # 0 /\ dataColumns # dataColumnsCheck),
       headerRows |-> headerRows,
       headerColumns |-> headerColumns,
       dataRows |-> dataRows,
       dataColumns |-> dataColumns,
       rows |-> headerRows + dataRows,
       columns |-> headerColumns + dataColumns]

\* get dimensions(): throws is TRUE when the getter throws
Dimensions(q, arr) ==
  LET headerColumns == Len(q.index.data)
      dataRowsCheck == IF Len(q.index.data) # 0 THEN Len(arr[q.index.data[1]]) ELSE 0
      headerRows == IF Len(q.columns) # 0 THEN Len(q.columns) ELSE 1
      dataColumnsCheck == IF Len(q.columns) # 0 THEN Len(q.columns[1]) ELSE 0
      dataRows == Len(q.data.data)
      dataColumns == IF Len(q.data.data) # 0 THEN Len(q.data.data[1]) ELSE dataColumnsCheck
  IN  [throws |-> \/ (dataRows # 0 /\ dataRows # dataRowsCheck)
                  \/ (dataColumns # 0 /\ dataColumns # dataColumnsCheck),
       headerRows |-> headerRows,
       headerColumns |-> headerColumns,
       dataRows |-> dataRows,
       dataColumns |-> dataColumns,
       rows |-> headerRows + dataRows,
       columns |-> headerColumns + dataColumns]

\* a[i] of JavaScript (i from 0): undefined beyond the end
Undefined == "undefined"

Has(a, i) == i >= 0 /\ i < Len(a)

At(a, i) == IF Has(a, i) THEN a[i + 1] ELSE Undefined

\* [...].join(" ")
RECURSIVE Join(_)
Join(names) ==
  IF Len(names) = 0 THEN ""
  ELSE IF Len(names) = 1 THEN names[1]
  ELSE names[1] \o " " \o Join(Tail(names))

\* betaToFormattedString(value, contentType): the formatter is given the
\* value and the type tag; what it makes of them is kept as the pair
FormattedString(value, contentType) == [value |-> value, contentType |-> contentType]

\* a frame held by value (the display values of a styler) as a Quiver with
\* its own index arrays and types
OwnArrays(v) == v.index.data

OwnTypes(v) == v.index.type

AsQuiver(v) ==
  [index |-> [data |-> [k \in 1..Len(v.index.data) |-> k],
              type |-> [k \in 1..Len(v.index.type) |-> k]],
   columns |-> v.columns, data |-> v.data, styler |-> NoStyler]

\* the result of getCell: error is "none" when a cell is returned
\* ("TypeError": a property of undefined was read); id is <<>> for undefined
Thrown(e) == [error |-> e, type |-> "", id |-> <<>>, classNames |-> "", content |-> ""]

Cell(type, id, classNames, content) ==
  [error |-> "none", type |-> type, id |-> id, classNames |-> classNames,
   content |-> content]

\* faulty variant: an id without looking for a uuid
CellId_Always(q, suffix) == <<"T_" \o q.styler.uuid \o suffix>>

\* the id of a cell: defined when the styler has a (non-empty) uuid
CellId(q, suffix) ==
  IF q.styler.defined /\ q.styler.uuid # "" THEN <<"T_" \o q.styler.uuid \o suffix>>
  ELSE <<>>

\* faulty variant: the level is named by the column
BlankClassNames_ColumnLevel(rowIndex, columnIndex) ==
  IF columnIndex > 0 THEN <<"blank", "level" \o ToString(columnIndex)>> ELSE <<"blank">>

\* class names of a blank cell
BlankClassNames(rowIndex, columnIndex) ==
  IF columnIndex > 0 THEN <<"blank", "level" \o ToString(rowIndex)>> ELSE <<"blank">>

\* faulty variant: the column range test that lets columnIndex = columns pass
ColumnIndexOutOfRange_Inclusive(columnIndex, columns) ==
  columnIndex < 0 \/ columnIndex > columns

\* the two range tests of getCell
ColumnIndexOutOfRange(columnIndex, columns) ==
  columnIndex < 0 \/ columnIndex >= columns

RowIndexOutOfRange(rowIndex, rows) == rowIndex < 0 \/ rowIndex >= rows

\* faulty variant: every cell of a header row is blank
IsBlankCell_RowsOnly(d, rowIndex, columnIndex) == rowIndex < d.headerRows

\* faulty variant: the blank region reaches the first body cell
IsBlankCell_Inclusive(d, rowIndex, columnIndex) ==
  rowIndex <= d.headerRows /\ columnIndex <= d.headerColumns

\* the regions of the grid
IsBlankCell(d, rowIndex, columnIndex) ==
  rowIndex < d.headerRows /\ columnIndex < d.headerColumns

IsIndexCell(d, rowIndex, columnIndex) ==
  rowIndex >= d.headerRows /\ columnIndex < d.headerColumns

IsColumnsCell(d, rowIndex, columnIndex) ==
  rowIndex < d.headerRows /\ columnIndex >= d.headerColumns

\* faulty variant: the raw value is formatted even when display values exist
HasDisplayValues_Never(q) == FALSE

\* this.styler?.displayValues: parseTable gives every styler display values
HasDisplayValues(q) == q.styler.defined

\* getCell(rowIndex, columnIndex) on the Quiver q with the arrays arr and
\* the types typ
RECURSIVE GetCell(_, _, _, _, _)
GetCell(q, arr, typ, rowIndex, columnIndex) ==
  LET d == Dimensions(q, arr)
      dataRowIndex == rowIndex - d.headerRows
      dataColumnIndex == columnIndex - d.headerColumns
  IN  IF d.throws THEN Thrown("DimensionMismatch")
      ELSE IF RowIndexOutOfRange(rowIndex, d.rows) THEN Thrown("RowIndexOutOfRange")
      ELSE IF ColumnIndexOutOfRange(columnIndex, d.columns)
           THEN Thrown("ColumnIndexOutOfRange")
      ELSE IF IsBlankCell(d, rowIndex, columnIndex)
           THEN Cell("blank", <<>>, Join(BlankClassNames(rowIndex, columnIndex)), "")
      ELSE IF IsIndexCell(d, rowIndex, columnIndex)
           THEN IF ~Has(q.index.type, columnIndex) \/ ~Has(q.index.data, columnIndex)
                THEN Thrown("TypeError")
                ELSE Cell("index",
                          CellId(q, "level" \o ToString(columnIndex)
                                     \o "_row" \o ToString(dataRowIndex)),
                          Join(<<"row_heading", "level" \o ToString(columnIndex),
                                 "row" \o ToString(dataRowIndex)>>),
                          FormattedString(At(arr[q.index.data[columnIndex + 1]], dataRowIndex),
                                          typ[q.index.type[columnIndex + 1]].name))
      ELSE IF IsColumnsCell(d, rowIndex, columnIndex)
           THEN IF ~Has(q.columns, rowIndex) THEN Thrown("TypeError")
                ELSE Cell("columns", <<>>,
                          Join(<<"col_heading", "level" \o ToString(rowIndex),
                                 "col" \o ToString(dataColumnIndex)>>),
                          At(q.columns[rowIndex + 1], dataColumnIndex))
      ELSE LET shown ==
                 IF HasDisplayValues(q)
                 THEN GetCell(AsQuiver(q.styler.displayValues),
                              OwnArrays(q.styler.displayValues),
                              OwnTypes(q.styler.displayValues), rowIndex, columnIndex)
                 ELSE IF ~Has(q.data.data, dataRowIndex) THEN Thrown("TypeError")
                 ELSE Cell("data", <<>>, "",
                           FormattedString(At(q.data.data[dataRowIndex + 1], dataColumnIndex),
                                           At(q.data.type, dataColumnIndex)))
           IN  IF shown.error # "none" THEN Thrown(shown.error)
               ELSE Cell("data",
                         CellId(q, "row" \o ToString(dataRowIndex)
                                    \o "_col" \o ToString(dataColumnIndex)),
                         Join(<<"data", "row" \o ToString(dataRowIndex),
                                "col" \o ToString(dataColumnIndex)>>),
                         shown.content)

\* ------------------------------------------------------------------------
\* betaAddRows
\* ------------------------------------------------------------------------
\* An element is the object add_rows is sent to: a Quiver itself (isQuiver,
\* frame = <<the Quiver>>) or a host object with an optional unnamed frame
\* (element.data, frame has 0 or 1 entries) and optional named datasets
\* (element.datasets: <<>> when undefined, else <<the list>>). A dataset is
\* {hasName, name, data}; data is a Quiver (isQuiver) or, for a dataset as
\* it came with add_rows, the payload itself.
Null == "null"

DatasetNames == {"n1", "n2"}

QuiverElement(q) == [isQuiver |-> TRUE, frame |-> <<q>>, datasets |-> <<>>]

HostElement(frame, datasets) == [isQuiver |-> FALSE, frame |-> frame, datasets |-> datasets]

QuiverDataSet(name, q) == [hasName |-> TRUE, name |-> name, isQuiver |-> TRUE, data |-> q]

\* ArrowNamedDataSet of an add_rows message: tag is Null for an untagged one
NamedDataSet(tag, p, id) ==
  [hasName |-> tag # Null, name |-> IF tag # Null THEN tag ELSE "",
   isQuiver |-> FALSE, data |-> ElementOf(p, id)]

\* getNamedDataSets
GetNamedDataSets(element) == element.datasets

\* position of the first dataset find() accepts, 0 when there is none
FindNamed(list, name) ==
  LET hits == {i \in 1..Len(list) : list[i].hasName /\ list[i].name = name}
  IN  IF hits = {} THEN 0 ELSE CHOOSE i \in hits : \A j \in hits : i <= j

\* getNamedDataSet: what the caller destructures as [index, entry]; the
\* dataset find() returns is handed back as it is, and is not iterable
GetNamedDataSet(namedDataSets, name) ==
  IF Len(namedDataSets) = 1 /\ Len(namedDataSets[1]) = 1
  THEN [iterable |-> TRUE, index |-> 0, entry |-> <<namedDataSets[1][1]>>]
  ELSE IF Len(namedDataSets) = 1 /\ FindNamed(namedDataSets[1], name) # 0
  THEN [iterable |-> FALSE, index |-> -1, entry |-> <<>>]
  ELSE [iterable |-> TRUE, index |-> -1, entry |-> <<>>]

\* pushNamedDataSet
PushNamedDataSet(element, namedDataset) ==
  [element EXCEPT !.datasets = <<Append(element.datasets[1], namedDataset)>>]

\* setDataFrameInNamedDataSet
SetDataFrameInNamedDataSet(element, index, df) ==
  [element EXCEPT !.datasets = <<<<[element.datasets[1][index + 1] EXCEPT
                                      !.isQuiver = TRUE, !.data = df]>>>>]

\* dataframeToModify.addRows(newQuiver) on the Quiver q
AddRowsTo(q, newQuiver, arr, typ) ==
  LET r == ConcatTables(q, newQuiver, arr, typ)
  IN  [outcome |-> r.outcome, df |-> IF r.outcome = "ok" THEN r.df ELSE q,
       arr |-> r.arr, typ |-> r.typ]

\* const [existingDatasetIndex, existingDataSet] = ... of a dataset object:
\* a build that destructures through the iterator throws a TypeError, a
\* build that destructures by position reads [0] and [1] of the dataset,
\* both undefined
Destructurings == {"iterator", "position"}

\* betaAddRows(element, namedDataSet) under a build that destructures as
\* given: outcome, the value returned (an
\* element; the element as it was when the call throws), the arrays and
\* types after the call, and target: where the payload went ("frame": the
\* unnamed frame, "dataset": the dataset at index, "installed": a new
\* dataset, "none")
BetaAddRows(element, namedDataSet, destructuring, arr, typ) ==
  LET name == IF namedDataSet.hasName THEN namedDataSet.name ELSE Null
      found == GetNamedDataSet(GetNamedDataSets(element), name)
      existingDataSet == found.entry
      fail(e) == [outcome |-> e, returned |-> element, arr |-> arr, typ |-> typ,
                  target |-> "none", index |-> -1]
      \* dataframeToModify: <<>> when the call ends before one is chosen
      inDataSet == [target |-> "dataset", frame |-> <<existingDataSet[1]>>]
      chosen ==
        IF namedDataSet.hasName
        THEN IF Len(existingDataSet) = 1 THEN inDataSet
             ELSE [target |-> "installed", frame |-> <<>>]
        ELSE IF Len(element.frame) = 1
             THEN [target |-> "frame",
                   frame |-> <<[isQuiver |-> TRUE, data |-> element.frame[1]]>>]
        ELSE IF Len(existingDataSet) = 1 THEN inDataSet
        ELSE [target |-> "none", frame |-> <<>>]
  IN  IF ~found.iterable /\ destructuring = "iterator" THEN fail("TypeError")
      ELSE IF chosen.target = "installed"
      THEN IF Len(element.datasets) = 0 THEN fail("TypeError")
           ELSE [outcome |-> "ok", returned |-> PushNamedDataSet(element, namedDataSet),
                 arr |-> arr, typ |-> typ, target |-> "installed", index |-> -1]
      ELSE IF chosen.target = "none" THEN fail("TypeError")
      ELSE IF ~chosen.frame[1].isQuiver THEN fail("TypeError")
      ELSE LET parsed == ParseTable(namedDataSet.data, arr, typ)
               r == AddRowsTo(chosen.frame[1].data, parsed.df, parsed.arr, parsed.typ)
               index == IF chosen.target = "dataset" THEN found.index ELSE -1
           IN  IF r.outcome # "ok"
               THEN [outcome |-> r.outcome, returned |-> element, arr |-> r.arr,
                     typ |-> r.typ, target |-> chosen.target, index |-> index]
               ELSE [outcome |-> "ok",
                     returned |-> IF Len(existingDataSet) = 1
                                  THEN SetDataFrameInNamedDataSet(
                                         IF chosen.target = "frame"
                                         THEN [element EXCEPT !.frame = <<r.df>>]
                                         ELSE element,
                                         found.index, r.df)
                                  ELSE QuiverElement(r.df),
                     arr |-> r.arr, typ |-> r.typ,
                     target |-> chosen.target, index |-> index]

\* ------------------------------------------------------------------------
\* compareValues
\* ------------------------------------------------------------------------
\* A number is [nan |-> FALSE, n |-> its value] or NaN; a string is a
\* sequence of letters.
NaN == [nan |-> TRUE, n |-> 0]

Number(n) == [nan |-> FALSE, n |-> n]

Numbers == {Number(n) : n \in -MaxValue .. MaxValue} \cup {NaN}

Letters == {"a", "A", "b"}

Strings == UNION {[1..n -> Letters] : n \in 0 .. MaxLen}

\* a < b and a > b of JavaScript on numbers: false when either is NaN
LessThan(a, b) == ~a.nan /\ ~b.nan /\ a.n < b.n

GreaterThan(a, b) == ~a.nan /\ ~b.nan /\ a.n > b.n

\* the base letter of a letter: sensitivity "base" ignores case
BaseLetter(c) == IF c = "A" THEN "a" ELSE c

LetterRank(c) == IF BaseLetter(c) = "a" THEN 1 ELSE 2

\* compareStrings: Intl.Collator("en", {numeric: false, sensitivity:
\* "base"}).compare
RECURSIVE CompareStrings(_, _)
CompareStrings(a, b) ==
  IF Len(a) = 0 /\ Len(b) = 0 THEN 0
  ELSE IF Len(a) = 0 THEN -1
  ELSE IF Len(b) = 0 THEN 1
  ELSE IF LetterRank(a[1]) < LetterRank(b[1]) THEN -1
  ELSE IF LetterRank(a[1]) > LetterRank(b[1]) THEN 1
  ELSE CompareStrings(Tail(a), Tail(b))

\* faulty variant: equal values count as smaller
CompareAny_LessOrEqual(a, b) ==
  IF LessThan(a, b) \/ a = b THEN -1
  ELSE IF GreaterThan(a, b) THEN 1
  ELSE 0

\* compareAny
CompareAny(a, b) ==
  IF LessThan(a, b) THEN -1
  ELSE IF GreaterThan(a, b) THEN 1
  ELSE 0

\* compareValues
CompareValues(a, b, type) ==
  IF type = "unicode" THEN CompareStrings(a, b) ELSE CompareAny(a, b)

\* the type tags of the values compared
TypeTags == {"int64", "float64", "unicode"}

\* ------------------------------------------------------------------------
\* Quiver.getSortedDataRowIndices
\* ------------------------------------------------------------------------
\* get tableRowsAndColumns: [0, 0] without a first row or with an empty one
TableRowsAndColumns(q) ==
  IF Len(q.data.data) = 0 THEN <<0, 0>>
  ELSE IF Len(q.data.data[1]) = 0 THEN <<0, 0>>
  ELSE <<Len(q.data.data), Len(q.data.data[1])>>

\* faulty variant: the comparison function that ignores sortAscending
SortCompare_Ascending(q, sortColumnIdx, sortAscending, aRowIdx, bRowIdx) ==
  CompareValues(q.data.data[aRowIdx + 1][sortColumnIdx + 1],
                q.data.data[bRowIdx + 1][sortColumnIdx + 1],
                q.data.type[sortColumnIdx + 1])

\* the comparison function handed to indices.sort
SortCompare(q, sortColumnIdx, sortAscending, aRowIdx, bRowIdx) ==
  LET sortColumnType == q.data.type[sortColumnIdx + 1]
      aValue == q.data.data[aRowIdx + 1][sortColumnIdx + 1]
      bValue == q.data.data[bRowIdx + 1][sortColumnIdx + 1]
  IN  IF sortAscending
      THEN CompareValues(aValue, bValue, sortColumnType)
      ELSE CompareValues(bValue, aValue, sortColumnType)

\* the arrangements of 0 .. n - 1
Arrangements(n) ==
  {f \in [1..n -> 0 .. n - 1] : \A i, j \in 1..n : f[i] = f[j] => i = j}

\* Array.prototype.sort of [0, ..., n - 1] under a consistent comparison
\* function: an arrangement in which a comes before b whenever the
\* function says a < b; which of the arrangements, when the function
\* returns 0 for some pair, is up to the engine
ArraySort(n, q, sortColumnIdx, sortAscending) ==
  {f \in Arrangements(n) :
     \A i, j \in 1..n :
        SortCompare(q, sortColumnIdx, sortAscending, f[i], f[j]) < 0 => i < j}

\* getSortedDataRowIndices: the error thrown, or the arrays that
\* indices.sort may leave
GetSortedDataRowIndices(q, sortColumnIdx, sortAscending) ==
  LET dataRows == TableRowsAndColumns(q)[1]
      dataColumns == TableRowsAndColumns(q)[2]
  IN  IF sortColumnIdx < 0 \/ sortColumnIdx >= dataColumns
      THEN [outcome |-> "BadSortColumnIdx", indices |-> {<<>>}]
      ELSE [outcome |-> "ok",
            indices |-> ArraySort(dataRows, q, sortColumnIdx, sortAscending)]

\* ------------------------------------------------------------------------
\* State
\* ------------------------------------------------------------------------
VARIABLES
  quiver,   \* the receiving Quiver: index (references), columns, data, styler
  heapArr,  \* the index level arrays, by reference
  heapTyp,  \* the IndexType objects, by reference
  args,     \* the frames passed to addRows so far, each with its content as parsed
  last,     \* the last addRows call: its outcome and the receiver before it
  element,  \* the element add_rows messages are sent to
  beta,     \* the betaAddRows calls: their number, the last one's input and outcome
  cmp,      \* two values of one type tag and what compareValues returned
  parse,    \* an IArrow element and what parseTable made of it
  sorting   \* a model, a sort request and what getSortedDataRowIndices returned

vars == <<quiver, heapArr, heapTyp, args, last, element, beta, cmp, parse, sorting>>

\* nothing sorted
NoSorting == [q |-> Null, sortColumnIdx |-> 0, sortAscending |-> TRUE,
              called |-> FALSE, outcome |-> "ok", indices |-> <<>>, after |-> Null]

\* nothing parsed on its own
NoParse == [element |-> Null, called |-> FALSE, outcome |-> "ok", frame |-> <<>>]

\* nothing compared
NoCompare == [a |-> NaN, b |-> NaN, type |-> "float64", called |-> FALSE,
              result |-> 0, reverse |-> 0]

\* no element: the Quiver is used on its own
NoElement == HostElement(<<>>, <<>>)

NoBeta == [calls |-> 0, tag |-> Null, outcome |-> "ok", target |-> "none", index |-> -1,
           before |-> NoElement]

\* what a call left behind: its outcome and the receiver's content after it
Outcome(r, q) == [outcome |-> r.outcome, df |-> Deep(q, r.arr, r.typ)]

\* the same frame under other column labels (as many levels, one label each)
Relabelled(df) == [df EXCEPT !.columns = [l \in 1..Len(df.columns) |-> <<<<"z">>>>]]

\* new Quiver(parseTable(element)) of any payload
Init ==
  \E p \in Payloads :
     \E parsed \in {ParseTable(ElementOf(p, 0), <<>>, <<>>)} :
         /\ quiver = parsed.df
         /\ heapArr = parsed.arr
         /\ heapTyp = parsed.typ
         /\ args = <<>>
         /\ element = NoElement
         /\ beta = NoBeta
         /\ cmp = NoCompare
         /\ parse = NoParse
         /\ sorting = NoSorting
         /\ last = [op |-> "new", outcome |-> "ok", path |-> "none", payload |-> p,
                    base |-> parsed.df,
                    pre |-> Deep(parsed.df, parsed.arr, parsed.typ),
                    relabelled |-> Outcome([outcome |-> "ok", arr |-> parsed.arr,
                                            typ |-> parsed.typ], parsed.df)]

\* betaAddRows: newQuiver = new Quiver(parseTable(newRows)), then
\* Quiver.addRows(newQuiver): the four fields are assigned only when
\* concatTables returns; what concatTables changed in place stays changed.
\* last.relabelled records what the same call does when newRows carries
\* other column labels.
AddRows(p) ==
  /\ Len(args) < MaxAdds
  /\ \E parsed \in {ParseTable(ElementOf(p, Len(args) + 1), heapArr, heapTyp)} :
     \E r \in {ConcatTables(quiver, parsed.df, parsed.arr, parsed.typ)} :
     \E other \in {ConcatTables(quiver, Relabelled(parsed.df), parsed.arr, parsed.typ)} :
         /\ quiver' = IF r.outcome = "ok" THEN r.df ELSE quiver
         /\ heapArr' = r.arr
         /\ heapTyp' = r.typ
         /\ args' = Append(args, [df |-> parsed.df,
                                  parsed |-> Deep(parsed.df, parsed.arr, parsed.typ)])
         /\ UNCHANGED <<element, beta, cmp, parse, sorting>>
         /\ last' = [op |-> "addRows", outcome |-> r.outcome, path |-> r.path,
                     payload |-> p,
                     base |-> quiver,
                     pre |-> Deep(quiver, heapArr, heapTyp),
                     relabelled |-> Outcome(other, IF other.outcome = "ok"
                                                   THEN other.df ELSE quiver)]

Next == \E p \in Payloads : AddRows(p)

Spec == Init /\ [][Next]_vars

\* The models whose cells are read: every frame as constructed, and as it is
\* after at most MaxCellAdds addRows calls.
AddRowsBeforeRead(p) == Len(args) < MaxCellAdds /\ AddRows(p)

NextCells == \E p \in Payloads : AddRowsBeforeRead(p)

CellSpec == Init /\ [][NextCells]_vars

\* The elements add_rows messages are sent to. Their frames and the
\* payloads of the messages have one row under a RangeIndex.
HostPayloads ==
  {p \in Payloads : p.index = "range" /\ p.cols \in {"int64", "unicode"}
                     /\ p.rows = 1 /\ ~p.styler}

HostKinds ==
  {"quiver", "data", "nothing", "noDatasets", "one", "two", "dataAndOne", "dataAndTwo"}

\* an element of the kind given that holds the parsed frames f1, f2 and f3
\* (a single dataset is named name), with the arrays and types of its frames
HostOf(kind, name, f1, f2, f3) ==
  LET all == [arr |-> f3.arr, typ |-> f3.typ]
      both == [arr |-> f2.arr, typ |-> f2.typ]
      first == [arr |-> f1.arr, typ |-> f1.typ]
      none == [arr |-> <<>>, typ |-> <<>>]
  IN  CASE kind = "quiver" -> [element |-> QuiverElement(f1.df), heap |-> first]
        [] kind = "data" -> [element |-> HostElement(<<f1.df>>, <<>>), heap |-> first]
        [] kind = "nothing" -> [element |-> HostElement(<<>>, <<>>), heap |-> none]
        [] kind = "noDatasets" -> [element |-> HostElement(<<>>, <<<<>>>>), heap |-> none]
        [] kind = "one" ->
             [element |-> HostElement(<<>>, <<<<QuiverDataSet(name, f1.df)>>>>),
              heap |-> first]
        [] kind = "two" ->
             [element |-> HostElement(<<>>, <<<<QuiverDataSet("n1", f1.df),
                                               QuiverDataSet("n2", f2.df)>>>>),
              heap |-> both]
        [] kind = "dataAndTwo" ->
             [element |-> HostElement(<<f3.df>>, <<<<QuiverDataSet("n1", f1.df),
                                                    QuiverDataSet("n2", f2.df)>>>>),
              heap |-> all]
        [] OTHER ->
             [element |-> HostElement(<<f2.df>>, <<<<QuiverDataSet(name, f1.df)>>>>),
              heap |-> both]

\* an element by content: every Quiver it holds with its index arrays and
\* types
DeepElement(e, arr, typ) ==
  [isQuiver |-> e.isQuiver,
   frame |-> [i \in 1..Len(e.frame) |-> Deep(e.frame[i], arr, typ)],
   datasets |-> [l \in 1..Len(e.datasets) |->
                   [i \in 1..Len(e.datasets[l]) |->
                      IF e.datasets[l][i].isQuiver
                      THEN [e.datasets[l][i] EXCEPT !.data = Deep(@, arr, typ)]
                      ELSE e.datasets[l][i]]]]

HostInit ==
  \E kind \in HostKinds, p \in HostPayloads, name \in DatasetNames :
     \E f1 \in {ParseTable(ElementOf(p, 0), <<>>, <<>>)} :
     \E f2 \in {ParseTable(ElementOf(p, 1), f1.arr, f1.typ)} :
     \E f3 \in {ParseTable(ElementOf(p, 9), f2.arr, f2.typ)} :
     \E host \in {HostOf(kind, name, f1, f2, f3)} :
         /\ (kind \notin {"one", "dataAndOne"}) => (name = "n1")
         /\ (kind \in {"nothing", "noDatasets"}) => (p.cols = "int64")
         /\ element = host.element
         /\ heapArr = host.heap.arr
         /\ heapTyp = host.heap.typ
         /\ beta = NoBeta
         /\ quiver = Null
         /\ args = <<>>
         /\ last = Null
         /\ cmp = NoCompare
         /\ parse = NoParse
         /\ sorting = NoSorting

\* an add_rows message with the payload p, tagged with a dataset name or
\* untagged (Null): the caller keeps what betaAddRows returns as the element
AddRowsMessage(tag, p) ==
  /\ beta.calls < MaxCalls
  /\ \E destructuring \in Destructurings :
     \E r \in {BetaAddRows(element, NamedDataSet(tag, p, beta.calls + 2),
                              destructuring, heapArr, heapTyp)} :
         /\ element' = r.returned
         /\ heapArr' = r.arr
         /\ heapTyp' = r.typ
         /\ beta' = [calls |-> beta.calls + 1, tag |-> tag, outcome |-> r.outcome,
                     target |-> r.target, index |-> r.index,
                     before |-> DeepElement(element, heapArr, heapTyp)]
  /\ UNCHANGED <<quiver, args, last, cmp, parse, sorting>>

HostNext == \E tag \in DatasetNames \cup {Null}, p \in HostPayloads : AddRowsMessage(tag, p)

HostSpec == HostInit /\ [][HostNext]_vars

\* Two values of one type tag, compared in both orders.
CompareInit ==
  \E type \in TypeTags :
     \E a, b \in IF type = "unicode" THEN Strings ELSE Numbers :
         /\ cmp = [a |-> a, b |-> b, type |-> type, called |-> FALSE,
                   result |-> 0, reverse |-> 0]
         /\ quiver = Null
         /\ heapArr = <<>>
         /\ heapTyp = <<>>
         /\ args = <<>>
         /\ last = Null
         /\ element = NoElement
         /\ beta = NoBeta
         /\ parse = NoParse
         /\ sorting = NoSorting

Compare ==
  /\ ~cmp.called
  /\ cmp' = [cmp EXCEPT !.called = TRUE,
                         !.result = CompareValues(cmp.a, cmp.b, cmp.type),
                         !.reverse = CompareValues(cmp.b, cmp.a, cmp.type)]
  /\ UNCHANGED <<quiver, heapArr, heapTyp, args, last, element, beta, parse, sorting>>

CompareNext == Compare

CompareSpec == CompareInit /\ [][CompareNext]_vars

\* The elements parseTable is called with: the payloads, a RangeIndex
\* given by any descriptor of as many entries as the table has rows, and
\* tables with or without the schema string in their metadata.
RangeStarts == 0 .. 1

RangeSteps == {-1, 1, 2}

RangeStops == -(MaxRows + 1) .. (2 * MaxRows + 1)

RangeDescriptors(n) ==
  {d \in {RangeDescriptor(start, stop, step) :
            start \in RangeStarts, stop \in RangeStops, step \in RangeSteps} :
     Len(LodashRange(d.start, d.stop, d.step)) = n}

\* the element of the payload p whose RangeIndex (when it has one) is d,
\* with the schema strings present as given
ElementWith(p, d, pandas, displayPandas) ==
  LET described(table) ==
        IF p.index \in {"range", "range2"}
        THEN [table EXCEPT !.schema.index_columns = <<d>>]
        ELSE table
      plain == ElementOf(p, 0)
  IN  [plain EXCEPT
         !.data = [described(@) EXCEPT !.pandas = pandas],
         !.styler.displayValues = [described(@) EXCEPT !.pandas = displayPandas]]

ParseInit ==
  \E p \in Payloads, pandas \in BOOLEAN, displayPandas \in BOOLEAN :
     \E d \in IF p.index \in {"range", "range2"}
               THEN RangeDescriptors(p.rows)
               ELSE {RangeDescriptor(0, 0, 1)} :
         /\ p.styler \/ displayPandas
         /\ parse = [element |-> ElementWith(p, d, pandas, displayPandas),
                     called |-> FALSE, outcome |-> "ok", frame |-> <<>>]
         /\ quiver = Null
         /\ heapArr = <<>>
         /\ heapTyp = <<>>
         /\ args = <<>>
         /\ last = Null
         /\ element = NoElement
         /\ beta = NoBeta
         /\ cmp = NoCompare
         /\ sorting = NoSorting

\* parseTable(element); the frame is kept by content
Parse ==
  /\ ~parse.called
  /\ \E r \in {TryParseTable(parse.element, <<>>, <<>>)} :
         parse' = [parse EXCEPT
                     !.called = TRUE,
                     !.outcome = r.outcome,
                     !.frame = [i \in 1..Len(r.frame) |-> Deep(r.frame[i], r.arr, r.typ)]]
  /\ UNCHANGED <<quiver, heapArr, heapTyp, args, last, element, beta, cmp, sorting>>

ParseNext == Parse

ParseSpec == ParseInit /\ [][ParseNext]_vars

\* The models getSortedDataRowIndices is called on: up to MaxRows + 1 data
\* rows of 0, 1 or 2 columns; the last column holds the values sorted by,
\* int64 or unicode, with equal and with case-different values among them;
\* a first column before it holds -r in row r.
SortRows == MaxRows + 1

SortNumbers == {Number(n) : n \in -1 .. 1}

SortStrings == UNION {[1..n -> Letters] : n \in 0 .. 1}

SortModel(columns, type, values) ==
  [data |-> [data |-> [r \in 1..Len(values) |->
                         IF columns = 0 THEN <<>>
                         ELSE IF columns = 1 THEN <<values[r]>>
                         ELSE <<Number(-r), values[r]>>],
             type |-> IF Len(values) = 0 \/ columns = 0 THEN <<>>
                      ELSE IF columns = 1 THEN <<type>>
                      ELSE <<"int64", type>>]]

SortInit ==
  \E n \in 0 .. SortRows, columns \in 0 .. 2, type \in {"int64", "unicode"} :
     \E values \in [1..n -> IF type = "unicode" THEN SortStrings ELSE SortNumbers],
        sortColumnIdx \in -1 .. 2, sortAscending \in BOOLEAN :
         /\ (columns = 0 \/ n = 0) => (type = "int64")
         /\ columns = 0 => \A r \in 1..n : values[r] = Number(0)
         /\ sorting = [NoSorting EXCEPT !.q = SortModel(columns, type, values),
                                        !.sortColumnIdx = sortColumnIdx,
                                        !.sortAscending = sortAscending]
         /\ quiver = Null
         /\ heapArr = <<>>
         /\ heapTyp = <<>>
         /\ args = <<>>
         /\ last = Null
         /\ element = NoElement
         /\ beta = NoBeta
         /\ cmp = NoCompare
         /\ parse = NoParse

\* q.getSortedDataRowIndices(sortColumnIdx, sortAscending)
Sort ==
  /\ ~sorting.called
  /\ \E r \in {GetSortedDataRowIndices(sorting.q, sorting.sortColumnIdx,
                                        sorting.sortAscending)} :
        \E indices \in r.indices :
           sorting' = [sorting EXCEPT !.called = TRUE,
                                      !.outcome = r.outcome,
                                      !.indices = indices,
                                      !.after = sorting.q]
  /\ UNCHANGED <<quiver, heapArr, heapTyp, args, last, element, beta, cmp, parse>>

SortNext == Sort

SortSpec == SortInit /\ [][SortNext]_vars

\* ------------------------------------------------------------------------
\* Vocabulary of the properties
\* ------------------------------------------------------------------------
\* the receiver's content now
Now == Deep(quiver, heapArr, heapTyp)

\* an addRows call has been made; LastArg is the frame it was given
Called == last.op = "addRows"

LastArg == args[Len(args)]

\* content of the receiver before the last call, of its argument as parsed
Base == last.pre

Addition == LastArg.parsed

BothUnstyled == ~Base.styler.defined /\ ~Addition.styler.defined

\* Structural emptiness as the emptiness test decides it on a frame v (by
\* content): no data rows, a first index level without entries, no
\* column-label rows. A frame with neither data rows nor an index level is
\* in neither class: the test cannot be evaluated on it.
StructurallyEmpty(v) ==
  /\ Len(v.data.data) = 0
  /\ Len(v.index.data) >= 1
  /\ Len(v.index.data[1]) = 0
  /\ Len(v.columns) = 0

StructurallyNonEmpty(v) ==
  \/ Len(v.data.data) > 0
  \/ /\ Len(v.index.data) >= 1
     /\ (Len(v.index.data[1]) > 0 \/ Len(v.columns) > 0)

\* the index type names of a frame, level by level
TypeNames(v) == [k \in 1..Len(v.index.type) |-> v.index.type[k].name]

\* e, e + k, ..., e + (m - 1) * k
Progression(e, k, m) == [i \in 1..m |-> e + (i - 1) * k]

\* ------------------------------------------------------------------------
\* C1..C10
\* ------------------------------------------------------------------------
\* C1: whenever addRows fails with an error, the receiving model is exactly
\* as it was before the call: index data, index type metadata, column
\* labels, data rows and types, styling.
C1_NoPartialSuccess == (Called /\ last.outcome # "ok") => Now = Base

\* C2: every frame that was passed to addRows keeps the content it was
\* parsed with, during its own call and during every later call on the
\* same receiver.
C2_ArgumentOnlyRead ==
  \A i \in 1..Len(args) : Deep(args[i].df, heapArr, heapTyp) = args[i].parsed

\* C3: for two unstyled, structurally non-empty frames whose data-type
\* sequences differ (in length or in a tag) the concat does not go through:
\* unless the index merge failed first, it fails with DataTypeMismatch.
C3_DataTypeMismatch ==
  (/\ Called
   /\ BothUnstyled
   /\ StructurallyNonEmpty(Base)
   /\ StructurallyNonEmpty(Addition)
   /\ Base.data.type # Addition.data.type)
  => last.outcome \in {"DataTypeMismatch", "IndexTypeMismatch", "TypeError"}

C5_RangeExtendedAlways ==
  (/\ Called
   /\ last.outcome = "ok"
   /\ Len(Addition.data.data) >= 1
   /\ Len(Addition.index.type) = Len(Base.index.type)) =>
    \A k \in 1..Len(Base.index.type) :
       Base.index.type[k].name = "range" =>
         LET e == Base.index.type[k].meta.stop
             step == Base.index.type[k].meta.step
             m == Len(Addition.data.data)
         IN  /\ Len(Now.index.data) >= k
             /\ Now.index.data[k] = Base.index.data[k] \o Progression(e, step, m)
             /\ Now.index.type[k].meta.stop = e + m * step

\* C5 as amended: the same, for a base whose first index level has at least
\* one entry (a base without index entries takes the addition's index).
C5_RangeExtended ==
  (/\ Called
   /\ last.outcome = "ok"
   /\ Len(Base.index.data) >= 1
   /\ Len(Base.index.data[1]) >= 1) =>
    \A k \in 1..Len(Base.index.type) :
       Base.index.type[k].name = "range" =>
         LET e == Base.index.type[k].meta.stop
             step == Base.index.type[k].meta.step
             m == Len(Addition.data.data)
         IN  /\ Len(Now.index.data) >= k
             /\ Now.index.data[k] = Base.index.data[k] \o Progression(e, step, m)
             /\ Now.index.type[k].meta.stop = e + m * step

\* C5 witness: {start: 0, step: 1, stop: 3} with {start: 0, step: 1,
\* stop: 2} gave [0, 1, 2, 3, 4] and the recorded stop 5
C5_Witness ==
  /\ Called
  /\ last.outcome = "ok"
  /\ Base.index.data = <<<<0, 1, 2>>>>
  /\ Base.index.type[1].name = "range"
  /\ Base.index.type[1].meta.stop = 3
  /\ Addition.index.data = <<<<0, 1>>>>
  /\ Addition.index.type[1].meta.stop = 2
  /\ Now.index.data = <<<<0, 1, 2, 3, 4>>>>
  /\ Now.index.type[1].meta.stop = 5

\* C6: a concat in which at least one frame carries styling fails with
\* StyledConcatUnsupported, whatever the other frame is, and returns no
\* frame: the receiver keeps what it had.
C6_StyledConcatUnsupported ==
  (Called /\ (Base.styler.defined \/ Addition.styler.defined)) =>
    /\ last.outcome = "StyledConcatUnsupported"
    /\ quiver = last.base
    /\ Now = Base

\* C6 witness: a styled addition was refused by a structurally empty,
\* unstyled base
C6_Witness ==
  /\ Called
  /\ ~Base.styler.defined
  /\ StructurallyEmpty(Base)
  /\ Addition.styler.defined
  /\ last.outcome = "StyledConcatUnsupported"

C8_MergedBody ==
  (Called /\ last.path = "merged") =>
    LET n == Dimensions(last.base, heapArr).dataColumns
        b == Len(Base.data.data)
    IN  /\ Len(Now.data.data) = b + Len(Addition.data.data)
        /\ SubSeq(Now.data.data, 1, b) = Base.data.data
        /\ \A r \in 1..Len(Addition.data.data) :
             Now.data.data[b + r] = SliceTo(Addition.data.data[r], n)
        /\ \A r \in 1..Len(Now.data.data) : Len(Now.data.data[r]) = n
        /\ Now.data.type = Base.data.type

\* C9: when a concat takes neither short-circuit and succeeds, the merged
\* column labels are the base's; the addition's labels change neither the
\* result nor whether the concat succeeds.
C9_BaseColumnsKept ==
  /\ (Called /\ last.path = "merged") => Now.columns = Base.columns
  /\ (Called /\ last.path \in {"merged", "throw"}) =>
       last.relabelled = [outcome |-> last.outcome, df |-> Now]

\* C9 witness: a merge of an addition whose labels are not the base's
C9_Witness ==
  /\ Called
  /\ last.path = "merged"
  /\ Addition.columns # Base.columns
  /\ Len(Addition.data.data) >= 1

\* C10: whenever dimensions returns, headerRows is the number of
\* column-label levels, or 1 without any, headerColumns is the number of
\* index levels, rows = headerRows + dataRows and columns = headerColumns +
\* dataColumns.
C10_Dimensions ==
  LET d == Dimensions(quiver, heapArr)
  IN  ~d.throws =>
        /\ d.headerRows = IF Len(Now.columns) = 0 THEN 1 ELSE Len(Now.columns)
        /\ d.headerColumns = Len(Now.index.data)
        /\ d.rows = d.headerRows + d.dataRows
        /\ d.columns = d.headerColumns + d.dataColumns
        /\ d.dataRows = Len(Now.data.data)

\* C10 witness: dimensions of a merged frame with two header rows, one
\* header column and a body
C10_Witness ==
  LET d == Dimensions(quiver, heapArr)
  IN  /\ Called
      /\ last.path = "merged"
      /\ ~d.throws
      /\ d.headerRows = 2
      /\ d.headerColumns = 1
      /\ d.dataRows > MaxRows
      /\ d.dataColumns = 2

\* ------------------------------------------------------------------------
\* C11..C20
\* ------------------------------------------------------------------------
\* header-derived shape of a frame v (by content): entries of the first
\* index level, labels of the first column-label level
IndexRowCount(v) == IF Len(v.index.data) # 0 THEN Len(v.index.data[1]) ELSE 0

LabelCount(v) == IF Len(v.columns) # 0 THEN Len(v.columns[1]) ELSE 0

\* C11: dimensions throws for every model with at least one data row whose
\* data row count differs from the length of the first index level or
\* whose first data row's length differs from the number of column labels
\* per level.
C11_DimensionMismatch ==
  (/\ Len(Now.data.data) > 0
   /\ \/ Len(Now.data.data) # IndexRowCount(Now)
      \/ Len(Now.data.data[1]) # LabelCount(Now))
  => Dimensions(quiver, heapArr).throws

\* the grid coordinates just outside and inside the grid of dimensions d
GridRows(d) == -1 .. d.rows

GridColumns(d) == -1 .. d.columns

InRange(d, r, c) == r >= 0 /\ r < d.rows /\ c >= 0 /\ c < d.columns

\* getCell on the model as it is now
CellAt(r, c) == GetCell(quiver, heapArr, heapTyp, r, c)

\* C12: on a model whose dimensions are (rows, columns), getCell fails
\* with an out-of-range error for every pair with rowIndex < 0, rowIndex >=
\* rows, columnIndex < 0 or columnIndex >= columns, the four positions just
\* outside the corners among them, and for no pair in range.
C12_OutOfRange ==
  LET d == Dimensions(quiver, heapArr)
  IN  ~d.throws =>
        \A r \in GridRows(d), c \in GridColumns(d) :
           InRange(d, r, c) <=>
             CellAt(r, c).error \notin {"RowIndexOutOfRange", "ColumnIndexOutOfRange"}

\* C12 witness: on a merged frame with a body the four positions just
\* outside the corners are refused and the last body cell is returned
C12_Witness ==
  LET d == Dimensions(quiver, heapArr)
  IN  /\ Called
      /\ last.path = "merged"
      /\ ~d.throws
      /\ d.dataRows > 0
      /\ d.dataColumns > 0
      /\ CellAt(-1, -1).error = "RowIndexOutOfRange"
      /\ CellAt(-1, d.columns).error = "RowIndexOutOfRange"
      /\ CellAt(d.rows, -1).error = "RowIndexOutOfRange"
      /\ CellAt(d.rows, d.columns).error = "RowIndexOutOfRange"
      /\ CellAt(0, d.columns).error = "ColumnIndexOutOfRange"
      /\ CellAt(d.rows - 1, d.columns - 1).error = "none"

\* the region of the grid a pair in range lies in
Region(d, r, c) ==
  IF r < d.headerRows
  THEN IF c < d.headerColumns THEN "blank" ELSE "columns"
  ELSE IF c < d.headerColumns THEN "index" ELSE "data"

\* the pairs in range for which getCell returns a cell of the type t
CellsOfType(d, t) ==
  {rc \in (0 .. d.rows - 1) \X (0 .. d.columns - 1) :
     LET cell == CellAt(rc[1], rc[2]) IN cell.error = "none" /\ cell.type = t}

\* C13: for every pair in range getCell returns a cell, of the type of the
\* region the pair lies in: blank above the index, index left of the body,
\* columns above the body, data in the body; so there are headerRows *
\* headerColumns blank cells, dataRows * headerColumns index cells,
\* headerRows * dataColumns columns cells and dataRows * dataColumns data
\* cells.
C13_CellTypeByRegion ==
  LET d == Dimensions(quiver, heapArr)
  IN  ~d.throws =>
        /\ \A r \in 0 .. d.rows - 1, c \in 0 .. d.columns - 1 :
              /\ CellAt(r, c).error = "none"
              /\ CellAt(r, c).type = Region(d, r, c)
        /\ Cardinality(CellsOfType(d, "blank")) = d.headerRows * d.headerColumns
        /\ Cardinality(CellsOfType(d, "index")) = d.dataRows * d.headerColumns
        /\ Cardinality(CellsOfType(d, "columns")) = d.headerRows * d.dataColumns
        /\ Cardinality(CellsOfType(d, "data")) = d.dataRows * d.dataColumns

\* C13 witness: a merged frame under two header rows whose grid has cells
\* of the four types, more than one of each
C13_Witness ==
  LET d == Dimensions(quiver, heapArr)
  IN  /\ Called
      /\ last.path = "merged"
      /\ ~d.throws
      /\ Cardinality(CellsOfType(d, "blank")) = 2
      /\ Cardinality(CellsOfType(d, "index")) > 2
      /\ Cardinality(CellsOfType(d, "columns")) = 4
      /\ Cardinality(CellsOfType(d, "data")) > 4

\* getCell(headerRows, headerColumns), the top-left body position
FirstBodyCell ==
  LET d == Dimensions(quiver, heapArr) IN CellAt(d.headerRows, d.headerColumns)

\* C14 as claimed: on every model whose dimensions getter returns,
\* getCell(headerRows, headerColumns) returns a cell of type data.
C14_FirstBodyCellAlways ==
  ~Dimensions(quiver, heapArr).throws =>
    (FirstBodyCell.error = "none" /\ FirstBodyCell.type = "data")

\* C14 as amended: on every model with at least one data row and one data
\* column getCell(headerRows, headerColumns) returns a cell of type data;
\* on a model without a body the position is out of range and getCell
\* fails with an out-of-range error; it never returns a blank, index or
\* columns cell.
C14_FirstBodyCell ==
  LET d == Dimensions(quiver, heapArr)
  IN  ~d.throws =>
        IF d.dataRows > 0 /\ d.dataColumns > 0
        THEN FirstBodyCell.error = "none" /\ FirstBodyCell.type = "data"
        ELSE FirstBodyCell.error \in {"RowIndexOutOfRange", "ColumnIndexOutOfRange"}

\* C14 witness: the first body cell of a merged frame under two header
\* rows, right of one header column
C14_Witness ==
  LET d == Dimensions(quiver, heapArr)
  IN  /\ Called
      /\ last.path = "merged"
      /\ ~d.throws
      /\ d.headerRows = 2
      /\ d.headerColumns = 1
      /\ d.dataRows > 1
      /\ FirstBodyCell.type = "data"
      /\ FirstBodyCell.classNames = "data row0 col0"

\* the class-name string claimed for the cell at (r, c) of a grid of
\* dimensions d
ClaimedClassNames(d, r, c) ==
  LET row == ToString(r - d.headerRows)
      col == ToString(c - d.headerColumns)
  IN  CASE Region(d, r, c) = "blank" ->
             IF c > 0 THEN "blank level" \o ToString(r) ELSE "blank"
        [] Region(d, r, c) = "index" -> "row_heading level" \o ToString(c) \o " row" \o row
        [] Region(d, r, c) = "columns" -> "col_heading level" \o ToString(r) \o " col" \o col
        [] OTHER -> "data row" \o row \o " col" \o col

\* C15: the class-name string of the cell getCell(r, c) returns is "blank"
\* (followed by "level<r>" only when c > 0) for a blank cell, "row_heading
\* level<c> row<r - headerRows>" for an index cell, "col_heading level<r>
\* col<c - headerColumns>" for a columns cell and "data row<r - headerRows>
\* col<c - headerColumns>" for a data cell; two distinct cells of the same
\* type other than blank never have the same class-name string.
C15_ClassNames ==
  LET d == Dimensions(quiver, heapArr)
      grid == (0 .. d.rows - 1) \X (0 .. d.columns - 1)
  IN  ~d.throws =>
        \A cells \in {[rc \in grid |-> CellAt(rc[1], rc[2])]} :
           /\ \A rc \in grid : cells[rc].classNames = ClaimedClassNames(d, rc[1], rc[2])
           /\ \A t \in {"index", "columns", "data"} :
                 LET ofType == {rc \in grid : cells[rc].type = t}
                 IN  Cardinality({cells[rc].classNames : rc \in ofType})
                       = Cardinality(ofType)

\* C15 witness: the class names on a merged frame with two index levels
C15_Witness ==
  LET d == Dimensions(quiver, heapArr)
  IN  /\ Called
      /\ last.path = "merged"
      /\ ~d.throws
      /\ d.headerColumns = 2
      /\ d.dataRows > 1
      /\ CellAt(0, 0).classNames = "blank"
      /\ CellAt(0, 1).classNames = "blank level0"
      /\ CellAt(2, 1).classNames = "row_heading level1 row1"
      /\ CellAt(0, 2).classNames = "col_heading level0 col0"
      /\ CellAt(2, 2).classNames = "data row1 col0"

\* the model's styling has an identifier
HasUuid == quiver.styler.defined /\ quiver.styler.uuid # ""

\* the identifier claimed for the cell at (r, c) of a grid of dimensions d
\* on a model whose styling has the identifier uuid
ClaimedId(d, uuid, r, c) ==
  LET row == ToString(r - d.headerRows)
      col == ToString(c - d.headerColumns)
  IN  CASE Region(d, r, c) = "index" -> <<"T_" \o uuid \o "level" \o ToString(c) \o "_row" \o row>>
        [] Region(d, r, c) = "data" -> <<"T_" \o uuid \o "row" \o row \o "_col" \o col>>
        [] OTHER -> <<>>

\* C16: a cell returned by getCell carries an identifier exactly when it is
\* an index or data cell of a model whose styling has a uuid:
\* T_<uuid>level<c>_row<r - headerRows> for an index cell,
\* T_<uuid>row<r - headerRows>_col<c - headerColumns> for a data cell; blank
\* and columns cells carry none, and neither does any cell of an unstyled
\* model.
C16_CellId ==
  LET d == Dimensions(quiver, heapArr)
  IN  ~d.throws =>
        \A r \in 0 .. d.rows - 1, c \in 0 .. d.columns - 1 :
           CellAt(r, c).id = IF HasUuid THEN ClaimedId(d, quiver.styler.uuid, r, c)
                             ELSE <<>>

\* C16 witness: the four cells of a styled frame of one row and one column
C16_Witness ==
  /\ HasUuid
  /\ CellAt(0, 0).type = "blank"
  /\ CellAt(0, 0).id = <<>>
  /\ CellAt(0, 1).type = "columns"
  /\ CellAt(0, 1).id = <<>>
  /\ CellAt(1, 0).id = <<"T_u1level0_row0">>
  /\ CellAt(1, 1).id = <<"T_u1row0_col0">>

\* getCell on the display values of the model's styler
DisplayCellAt(r, c) ==
  GetCell(AsQuiver(quiver.styler.displayValues), OwnArrays(quiver.styler.displayValues),
          OwnTypes(quiver.styler.displayValues), r, c)

\* the raw value under the body cell (r, c), formatted with the type tag of
\* its data column
FormattedRaw(d, r, c) ==
  FormattedString(Now.data.data[r - d.headerRows + 1][c - d.headerColumns + 1],
                  Now.data.type[c - d.headerColumns + 1])

\* C17: the content of a body cell getCell(r, c) is the content of the
\* display-values model's cell at the same (r, c) when the styling carries
\* display values, and otherwise the raw value data[r - headerRows][c -
\* headerColumns] formatted with the type tag of data column c -
\* headerColumns; with display values the raw value is not what is shown.
C17_DataCellContent ==
  LET d == Dimensions(quiver, heapArr)
  IN  ~d.throws =>
        \A r \in d.headerRows .. d.rows - 1, c \in d.headerColumns .. d.columns - 1 :
           /\ Has(Now.data.type, c - d.headerColumns)
           /\ IF quiver.styler.defined
              THEN /\ DisplayCellAt(r, c).error = "none"
                   /\ CellAt(r, c).content = DisplayCellAt(r, c).content
                   /\ CellAt(r, c).content # FormattedRaw(d, r, c)
              ELSE CellAt(r, c).content = FormattedRaw(d, r, c)

\* C17 witness: a styled frame whose body cell shows the display value,
\* which is not the raw value
C17_Witness ==
  LET d == Dimensions(quiver, heapArr)
  IN  /\ quiver.styler.defined
      /\ ~d.throws
      /\ d.dataRows = 1
      /\ d.dataColumns = 1
      /\ CellAt(1, 1).type = "data"
      /\ CellAt(1, 1).content.value = quiver.styler.displayValues.data.data[1][1]
      /\ CellAt(1, 1).content.value # quiver.data.data[1][1]

\* the element by content, as it is now
ElementNow == DeepElement(element, heapArr, heapTyp)

\* the named datasets of an element (by content), none when it has no list
DataSetsOf(e) == IF Len(e.datasets) = 1 THEN e.datasets[1] ELSE <<>>

\* positions of the datasets of the element e named tag
NamedAs(e, tag) ==
  {i \in 1..Len(DataSetsOf(e)) : DataSetsOf(e)[i].hasName /\ DataSetsOf(e)[i].name = tag}

\* C18: a payload tagged with a dataset name goes into the host's dataset
\* of that name (addRows is called on that frame and on no other) and, on a
\* host that keeps a list of datasets, is installed as a new dataset of
\* that name when the host has none; an untagged payload goes into the
\* host's unnamed frame when there is one and is installed as a new frame
\* when the host has no frame at all.
C18_TargetSelection ==
  beta.calls > 0 =>
    LET before == beta.before
        named == NamedAs(before, beta.tag)
    IN  IF beta.tag # Null
        THEN IF named # {}
             THEN beta.target = "dataset" /\ beta.index + 1 \in named
             ELSE (Len(before.datasets) = 1) =>
                    /\ beta.outcome = "ok"
                    /\ beta.target = "installed"
                    /\ Len(DataSetsOf(ElementNow)) = Len(DataSetsOf(before)) + 1
                    /\ NamedAs(ElementNow, beta.tag) = {Len(DataSetsOf(ElementNow))}
        ELSE IF Len(before.frame) = 1
             THEN beta.target = "frame"
             ELSE (Len(DataSetsOf(before)) = 0) =>
                    (beta.outcome = "ok" /\ beta.target = "installed")

\* C19: for a type tag other than "unicode", compareValues returns -1 when
\* a < b, 1 when a > b and 0 otherwise, so a value of {-1, 0, 1}; for two
\* numbers (totally ordered) compare(a, b) = -compare(b, a).
C19_CompareAny ==
  (cmp.called /\ cmp.type # "unicode") =>
    /\ cmp.result \in {-1, 0, 1}
    /\ cmp.result = -1 <=> LessThan(cmp.a, cmp.b)
    /\ cmp.result = 1 <=> GreaterThan(cmp.a, cmp.b)
    /\ (~cmp.a.nan /\ ~cmp.b.nan) =>
         /\ cmp.result = -cmp.reverse
         /\ cmp.result = 0 <=> cmp.a = cmp.b

\* C19 witness: compare(1, 2, "int64") < 0 and compare(2, 1, "int64") > 0
C19_Witness ==
  /\ cmp.called
  /\ cmp.type = "int64"
  /\ cmp.a = Number(1)
  /\ cmp.b = Number(2)
  /\ cmp.result < 0
  /\ cmp.reverse > 0

\* the payload parsed last (by the constructor's caller or for addRows), its
\* table and the frame parseTable made of it
ParsedPayload == last.payload

ParsedTable == TableOf(last.payload, IF Called THEN Len(args) ELSE 0)

ParsedFrame == IF Called THEN Addition ELSE last.pre

\* C20: parsing a payload of N rows whose schema has M data columns gives
\* N data rows of M values each, the j-th value of row r being row r of the
\* table column of the j-th data column of the schema, and a data-type
\* sequence of length M when N > 0 and of length 0 when N = 0.
C20_ParsedData ==
  LET schema == ParsedTable.schema
      fields == SelectSeq(schema.columns,
                          LAMBDA column : ~IndexColumnsInclude(schema, column.field_name))
      n == ParsedPayload.rows
      m == Len(fields)
      data == ParsedFrame.data
  IN  /\ Len(data.data) = n
      /\ \A r \in 1..n :
            /\ Len(data.data[r]) = m
            /\ \A j \in 1..m :
                  data.data[r][j] =
                    CellValue(ParsedTable, ColumnPosition(schema, fields[j].field_name), r - 1)
      /\ Len(data.type) = IF n > 0 THEN m ELSE 0
      /\ \A j \in 1..Len(data.type) : data.type[j] = fields[j].pandas_type

\* C20 witness: a payload of no rows with column labels was parsed into a
\* frame without data types, then a payload of MaxRows rows and two data
\* columns into MaxRows rows of two values
C20_Witness ==
  /\ Called
  /\ last.pre.columns # <<>>
  /\ Len(last.pre.data.data) = 0
  /\ Len(last.pre.data.type) = 0
  /\ ParsedPayload.rows = MaxRows
  /\ ParsedPayload.cols = "two"
  /\ Len(ParsedFrame.data.data) = MaxRows
  /\ Len(ParsedFrame.data.data[MaxRows]) = 2
  /\ ParsedFrame.data.type = <<"int64", "unicode">>

\* ------------------------------------------------------------------------
\* C21..C30
\* ------------------------------------------------------------------------
\* the schema string is missing from the table of the element parsed, or
\* from the display values of its styler
SchemaIsMissing ==
  \/ ~parse.element.data.pandas
  \/ parse.element.styler.defined /\ ~parse.element.styler.displayValues.pandas

\* C21: parseTable of a payload whose metadata has no schema string under
\* "pandas" fails with the schema-missing error, raised to the caller, and
\* returns no frame (no schema is put in its place); with the schema strings
\* present that error is not raised.
C21_SchemaMissing ==
  parse.called =>
    IF SchemaIsMissing
    THEN parse.outcome = "SchemaMissing" /\ parse.frame = <<>>
    ELSE parse.outcome = "ok" /\ Len(parse.frame) = 1

\* C21 witness: a table of MaxRows rows with a complete schema under no
\* "pandas" key was refused
C21_Witness ==
  /\ parse.called
  /\ ~parse.element.data.pandas
  /\ parse.element.data.length = MaxRows
  /\ Len(parse.element.data.schema.columns) = 2
  /\ parse.outcome = "SchemaMissing"
  /\ parse.frame = <<>>

\* the data invariant of a frame: every data row is as long as data.type,
\* and data.type has one entry per data column (per column label of a level)
DataInvariant(v) ==
  /\ \A r \in 1..Len(v.data.data) : Len(v.data.data[r]) = Len(v.data.type)
  /\ Len(v.data.type) = LabelCount(v)

\* C22: every frame with at least one data row that was parsed, or that a
\* successful addRows left in the receiver, satisfies the data invariant;
\* so does the frame got by adding rows to a parsed zero-row frame that has
\* column labels.
C22_DataInvariant ==
  ((~Called \/ last.outcome = "ok") /\ Len(Now.data.data) > 0) => DataInvariant(Now)

\* the base has a first index level, without entries, and is not
\* structurally empty
EmptyFirstLevel(v) ==
  /\ Len(v.index.data) >= 1
  /\ Len(v.index.data[1]) = 0
  /\ ~StructurallyEmpty(v)

\* C23 as claimed: whenever the base is not structurally empty and its first
\* index level has no entries, the concat does not fail with
\* IndexTypeMismatch and the merged index is the addition's, data and types
\* of every level.
C23_IndexAdoptedAlways ==
  (Called /\ BothUnstyled /\ EmptyFirstLevel(Base)) =>
    /\ last.outcome # "IndexTypeMismatch"
    /\ last.outcome = "ok" => Now.index = Addition.index

\* C23 as amended: the same when the addition is not structurally empty
\* either (a structurally empty addition gives back the base with its own
\* index); the concat then succeeds for every addition the emptiness test
\* can be made on.
C23_IndexAdopted ==
  (Called /\ BothUnstyled /\ EmptyFirstLevel(Base) /\ ~StructurallyEmpty(Addition)) =>
    /\ last.outcome # "IndexTypeMismatch"
    /\ StructurallyNonEmpty(Addition) => last.outcome = "ok"
    /\ last.outcome = "ok" => Now.index = Addition.index

\* C23 witness: a base of one range level without entries took the two
\* index levels of an addition of MaxRows rows
C23_Witness ==
  /\ Called
  /\ BothUnstyled
  /\ EmptyFirstLevel(Base)
  /\ TypeNames(Base) = <<"range">>
  /\ Len(Addition.index.type) = 2
  /\ Len(Addition.data.data) = MaxRows
  /\ last.outcome = "ok"
  /\ Now.index = Addition.index

\* the addition's entries for level k: none when it has no such level (a
\* structurally empty addition of fewer levels)
AdditionLevel(k) ==
  IF Len(Addition.index.data) >= k THEN Addition.index.data[k] ELSE <<>>

\* level k of the receiver is the base's level k followed by the addition's,
\* under the base's type; a categorical level counts the addition's rows
\* into num_categories, any other level keeps its metadata
LevelAppended(k) ==
  /\ Len(Now.index.data) >= k
  /\ Now.index.data[k] = Base.index.data[k] \o AdditionLevel(k)
  /\ Len(Now.index.data[k]) = Len(Base.index.data[k]) + Len(AdditionLevel(k))
  /\ Now.index.type[k] =
       IF Base.index.type[k].name = "categorical"
       THEN [Base.index.type[k] EXCEPT
               !.meta.num_categories = @ + Len(Addition.data.data)]
       ELSE Base.index.type[k]

\* C24 as claimed: after a successful concat every index level of the base
\* that is not a range is the base's level followed by the addition's.
C24_LevelAppendedAlways ==
  (Called /\ last.outcome = "ok") =>
    \A k \in 1..Len(Base.index.type) :
       Base.index.type[k].name # "range" => LevelAppended(k)

\* C24 as amended: the same for a base whose first index level has at least
\* one entry (a base without index entries takes the addition's index, and
\* with it the addition's types).
C24_LevelAppended ==
  (/\ Called
   /\ last.outcome = "ok"
   /\ Len(Base.index.data) >= 1
   /\ Len(Base.index.data[1]) >= 1) =>
    \A k \in 1..Len(Base.index.type) :
       Base.index.type[k].name # "range" => LevelAppended(k)

\* C24 witness: a categorical level of MaxRows entries was followed by the
\* MaxRows entries of the addition and counts them in num_categories, after
\* an earlier addRows
C24_Witness ==
  /\ Called
  /\ last.outcome = "ok"
  /\ Len(args) = MaxAdds
  /\ TypeNames(Base) = <<"categorical">>
  /\ Len(Base.index.data[1]) >= MaxRows
  /\ Len(Addition.data.data) = MaxRows
  /\ Now.index.data[1] = Base.index.data[1] \o Addition.index.data[1]
  /\ Now.index.type[1].meta.num_categories =
       Base.index.type[1].meta.num_categories + MaxRows

\* x comes before the stop of the descriptor d, in the direction of its step
BeforeStop(d, x) == IF d.step > 0 THEN x < d.stop ELSE x > d.stop

\* C25: parseTable makes one index level per entry of index_columns, in
\* schema order, and as many index types as index levels; the level of a
\* range descriptor {start, stop, step} is start, start + step, ... with
\* exactly the terms that come before stop, and its type is "range" with
\* the descriptor's start, stop and step as meta.
C25_RangeMaterialized ==
  (parse.called /\ parse.outcome = "ok") =>
    LET frame == parse.frame[1]
        descriptors == parse.element.data.schema.index_columns
    IN  /\ Len(frame.index.data) = Len(descriptors)
        /\ Len(frame.index.type) = Len(frame.index.data)
        /\ \A k \in 1..Len(descriptors) :
              descriptors[k].kind = "range" =>
                LET d == descriptors[k]
                    level == frame.index.data[k]
                    n == Len(level)
                IN  /\ level = Progression(d.start, d.step, n)
                    /\ \A i \in 1..n : BeforeStop(d, level[i])
                    /\ ~BeforeStop(d, d.start + n * d.step)
                    /\ frame.index.type[k].name = "range"
                    /\ frame.index.type[k].meta.start = d.start
                    /\ frame.index.type[k].meta.stop = d.stop
                    /\ frame.index.type[k].meta.step = d.step

\* C25 witness: {start: 1, stop: 2 * MaxRows, step: 2}, a stop that is no
\* term of the progression, was parsed into MaxRows entries 1, 3, ...
C25_Witness ==
  /\ parse.called
  /\ parse.outcome = "ok"
  /\ parse.element.data.schema.index_columns = <<RangeDescriptor(1, 2 * MaxRows, 2)>>
  /\ parse.frame[1].index.data = <<Progression(1, 2, MaxRows)>>
  /\ parse.frame[1].index.type[1].meta.stop = 2 * MaxRows

\* the values of the column sorted by, in the order of the indices returned
SortedValues ==
  [i \in 1..Len(sorting.indices) |->
     sorting.q.data.data[sorting.indices[i] + 1][sorting.sortColumnIdx + 1]]

\* the number of data columns and of data rows of the model sorted: the
\* length of its first data row, and no rows when that row has no values
SortDataColumns ==
  IF Len(sorting.q.data.data) = 0 THEN 0 ELSE Len(sorting.q.data.data[1])

SortDataRows ==
  IF SortDataColumns = 0 THEN 0 ELSE Len(sorting.q.data.data)

\* C26: getSortedDataRowIndices fails exactly when sortColumnIdx is below 0
\* or not below the number of data columns; otherwise it returns every row
\* index 0 .. dataRows - 1 once, each followed by an index whose value in the
\* column compares as not smaller (ascending) or not greater (descending),
\* and the model's data is as before.
C26_SortedIndices ==
  sorting.called =>
    IF sorting.sortColumnIdx < 0 \/ sorting.sortColumnIdx >= SortDataColumns
    THEN sorting.outcome = "BadSortColumnIdx"
    ELSE /\ sorting.outcome = "ok"
         /\ Len(sorting.indices) = SortDataRows
         /\ {sorting.indices[i] : i \in 1..Len(sorting.indices)} = 0 .. SortDataRows - 1
         /\ \A i \in 1 .. Len(sorting.indices) - 1 :
               LET c == CompareValues(SortedValues[i], SortedValues[i + 1],
                                      sorting.q.data.type[sorting.sortColumnIdx + 1])
               IN  IF sorting.sortAscending THEN c <= 0 ELSE c >= 0
         /\ sorting.after = sorting.q

\* C26 witness: SortRows rows were sorted descending by a unicode column in
\* which two values differ in case only and the rows were not in order
C26_Witness ==
  /\ sorting.called
  /\ sorting.outcome = "ok"
  /\ ~sorting.sortAscending
  /\ sorting.sortColumnIdx = 1
  /\ sorting.q.data.type = <<"int64", "unicode">>
  /\ Len(sorting.indices) = SortRows
  /\ sorting.indices[1] # 0
  /\ \E i, j \in 1..SortRows :
        /\ SortedValues[i] = <<"a">>
        /\ SortedValues[j] = <<"A">>
  /\ SortedValues[1] = <<"b">>

\* a frame v (by content) is dimension-consistent: its dimensions do not
\* throw and every index level has as many entries as there are data rows
DimensionConsistent(v) ==
  /\ ~Dimensions(AsQuiver(v), OwnArrays(v)).throws
  /\ \A k \in 1..Len(v.index.data) : Len(v.index.data[k]) = Len(v.data.data)

\* C27: a successful addRows of a dimension-consistent parsed frame to a
\* dimension-consistent receiver leaves the receiver dimension-consistent,
\* with as many data rows as the two had together; so along any sequence of
\* successful calls from a dimension-consistent parsed frame the receiver
\* stays dimension-consistent and its dataRows is the sum of the row counts.
C27_DimensionConsistent ==
  (/\ Called
   /\ last.outcome = "ok"
   /\ DimensionConsistent(Base)
   /\ DimensionConsistent(Addition)) =>
    /\ DimensionConsistent(Now)
    /\ Dimensions(quiver, heapArr).dataRows =
         Len(Base.data.data) + Len(Addition.data.data)

\* C27 witness: after MaxAdds successful calls on dimension-consistent
\* frames, the last one a merge of MaxRows rows under two index levels, the
\* receiver is dimension-consistent and has more than 2 * MaxRows data rows
C27_Witness ==
  /\ Called
  /\ last.outcome = "ok"
  /\ last.path = "merged"
  /\ Len(args) = MaxAdds
  /\ DimensionConsistent(Base)
  /\ DimensionConsistent(Addition)
  /\ Len(Base.index.data) = 2
  /\ Len(Addition.data.data) = MaxRows
  /\ DimensionConsistent(Now)
  /\ Dimensions(quiver, heapArr).dataRows > 2 * MaxRows

\* C28: after a successful addRows that merged at least one row into a
\* receiver with index entries, every range level of the receiver is the
\* progression start, start + step, ... of its recorded start and step, and
\* its recorded stop is its last entry plus step; also for a range parsed
\* with a stop that is not start plus a multiple of step.
C28_RangeProgression ==
  (/\ Called
   /\ last.outcome = "ok"
   /\ last.path = "merged"
   /\ IndexRowCount(Base) >= 1
   /\ Len(Addition.data.data) >= 1) =>
    \A k \in 1..Len(Now.index.type) :
       (Now.index.type[k].name = "range" /\ Len(Now.index.data[k]) >= 1) =>
         LET meta == Now.index.type[k].meta
             level == Now.index.data[k]
         IN  /\ level = Progression(meta.start, meta.step, Len(level))
             /\ meta.stop = level[Len(level)] + meta.step

\* the named frames of the element e other than its dataset at position
\* skip (from 1; 0 skips none), in their order
OtherDataSets(e, skip) ==
  LET list == DataSetsOf(e)
      F[i \in 0..Len(list)] ==
        IF i = 0 THEN <<>>
        ELSE IF i = skip THEN F[i - 1]
        ELSE Append(F[i - 1], list[i])
  IN  F[Len(list)]

\* C29: after a betaAddRows that returned, on a host holding several named
\* frames, the host holds as many named frames as before, or one more when
\* a named frame was installed, and every named frame other than the one
\* the call merged into is held as before, under its name.
C29_OtherFramesKept ==
  (beta.calls > 0 /\ beta.outcome = "ok" /\ Len(DataSetsOf(beta.before)) >= 2) =>
    LET before == DataSetsOf(beta.before)
        now == DataSetsOf(ElementNow)
        selected == IF beta.target = "dataset" THEN beta.index + 1 ELSE 0
    IN  /\ Len(now) = Len(before) + (IF beta.target = "installed" THEN 1 ELSE 0)
        /\ OtherDataSets(beta.before, selected) =
             SubSeq(OtherDataSets(ElementNow, selected), 1,
                    Len(OtherDataSets(beta.before, selected)))

\* C30: a concat of two unstyled frames, whatever their numbers of index
\* levels and of column-label rows, returns a frame or fails with
\* IndexTypeMismatch or DataTypeMismatch, in no other way.
C30_NoOtherFailure ==
  (Called /\ BothUnstyled) =>
    last.outcome \in {"ok", "IndexTypeMismatch", "DataTypeMismatch"}

====
